---------------------------- MODULE Spec2Model ----------------------------
(***************************************************************************)
(* pyMHD: counting microhomology at deletions.                             *)
(*                                                                         *)
(* searchKmer (src/pyMHD/__init__.py:11-86) is a function of its arguments *)
(* and of what the two external tools answer; it is modelled as the        *)
(* operator SearchKmer and exercised by SpecSearch over every bounded      *)
(* input.  mafMHD and vcfMHD (lines 90-271) are modelled as a state        *)
(* machine over the lines of the input file (Spec).  The chromosome-name   *)
(* formatting of both aggregators is exercised by SpecChrom.               *)
(*                                                                         *)
(* Strings are sequences of one-character strings.  Python's None is the   *)
(* model value None, searchKmer's -1 the result kind "sentinel".           *)
(***************************************************************************)
EXTENDS Integers, Sequences, FiniteSets, TLC

VARIABLES
    \* ---- searchKmer, exercised alone (SpecSearch)
    args,        \* the arguments and tool answers of the searchKmer call
    res,         \* what the call produced; kind "pending" before the call
    \* ---- chromosome formatting (SpecChrom)
    chromIn,     \* the chromosome column as read
    chromOut,    \* <<name>> after formatting, <<>> before
    chromTwice,  \* <<name>> after formatting the formatted name, <<>> before
    \* ---- mafMHD / vcfMHD (Spec)
    fn,          \* which aggregator runs: "mafMHD" or "vcfMHD"
    pc,          \* "idle", "loop", "returned", "returnedNone", "raised"
    exc,         \* the exception that ended the run, None otherwise
    env,         \* the run's parameters and environment
    header,      \* TRUE once the MAF header line has bound the column indices
    mhdCount,    \* histogram: keys 0..9, key 10 stands for '10+'
    variantCount, delCount, delFiltered, trfCount,
    last         \* the line under the read head and what reading it did

searchVars == <<args, res>>
chromVars  == <<chromIn, chromOut, chromTwice>>
runVars    == <<fn, pc, exc, env, header, mhdCount,
                variantCount, delCount, delFiltered, trfCount, last>>
vars == <<args, res, chromIn, chromOut, chromTwice, fn, pc, exc, env, header,
          mhdCount, variantCount, delCount, delFiltered, trfCount, last>>

None == "None"

(***************************************************************************)
(* Bounds                                                                  *)
(***************************************************************************)
MaxRef == 2          \* longest reference allele enumerated by SpecSearch
MaxFlank == 2        \* largest flankSize enumerated by SpecSearch
MaxTrfLines == 1     \* most output lines the repeat finder prints
MaxChromLen == 4     \* longest chromosome name enumerated by SpecChrom
MaxRecords == 3      \* most data lines one run of Spec consumes

Bases == {"A", "C"}
Starts == {1, 7}

\* All sequences over S of length lo..hi
SeqsOf(S, lo, hi) == UNION {[1..n -> S] : n \in lo..hi}

(***************************************************************************)
(* Python string primitives                                                *)
(***************************************************************************)
\* s[:n] for n >= 0
Take(s, n) == SubSeq(s, 1, IF n < Len(s) THEN n ELSE Len(s))

\* s[n:] for n >= 0
Drop(s, n) == SubSeq(s, n + 1, Len(s))

\* s[::-1]
Reverse(s) == [i \in 1..Len(s) |-> s[Len(s) + 1 - i]]

\* prefix.startswith test, used only to state properties
StartsWith(s, p) == Len(p) <= Len(s) /\ SubSeq(s, 1, Len(p)) = p

(***************************************************************************)
(* searchKmer                                                              *)
(***************************************************************************)
\* line 44: the region string chrom:lo-hi handed to samtools faidx
Region(start, ref, flankSize) ==
    [lo |-> start - flankSize, hi |-> start + Len(ref) + flankSize]

\* samtools faidx regions are 1-based and closed at both ends: the number of
\* bases of region chrom:lo-hi
WindowLen(start, ref, flankSize) ==
    LET r == Region(start, ref, flankSize) IN r.hi - r.lo + 1

\* lines 55-56
Upstream(flankseq, ref, flankSize) == Take(flankseq, flankSize)
Downstream(flankseq, ref, flankSize) == Drop(flankseq, flankSize + Len(ref))

\* lines 69-74: the loop over i = -1, -2, ..., -len(ref); k is -i.
\* Yields the accumulated kmer (before the reversal of line 75), or the
\* IndexError of upstream[i] when the flank has fewer than k characters.
RECURSIVE UpScan(_, _, _, _)
UpScan(ref, upstream, k, kmer) ==
    IF k > Len(ref) THEN [raised |-> FALSE, kmer |-> kmer]
    ELSE IF k > Len(upstream) THEN [raised |-> TRUE, kmer |-> kmer]
    ELSE IF ref[Len(ref) + 1 - k] = upstream[Len(upstream) + 1 - k]
         THEN UpScan(ref, upstream, k + 1, kmer \o <<ref[Len(ref) + 1 - k]>>)
         ELSE [raised |-> FALSE, kmer |-> kmer]

\* lines 79-83: the loop over i = 0 .. len(ref)-1; i here is 1-based.
RECURSIVE DownScan(_, _, _, _)
DownScan(ref, downstream, i, kmer) ==
    IF i > Len(ref) THEN [raised |-> FALSE, kmer |-> kmer]
    ELSE IF i > Len(downstream) THEN [raised |-> TRUE, kmer |-> kmer]
    ELSE IF ref[i] = downstream[i]
         THEN DownScan(ref, downstream, i + 1, kmer \o <<ref[i]>>)
         ELSE [raised |-> FALSE, kmer |-> kmer]

\* the downstream flank scanned whatever the upstream scan found
TryDownstreamAlways(kmer) == TRUE

\* line 77: is the downstream flank scanned?
TryDownstream(kmer) == kmer = <<>>

\* line 84: what the downstream branch leaves in kmer
DownKmer(acc) == Reverse(acc)

\* the repeat check asking for more than one output line
RepeatExcludedOffByOne(trfdir, trfLines) == trfdir # None /\ trfLines > 1

\* lines 61-65: does the repeat check end the call with -1?
\* trfdir is None or the path of the script; trfLines is the number of lines
\* the script printed.
RepeatExcluded(trfdir, trfLines) == trfdir # None /\ trfLines > 0

\* The result of a call.  kind: "None" (line 41), "sentinel" (line 65),
\* "kmer" (line 86) or "IndexError" (lines 71, 80).  The flags record which
\* steps ran: fetched (lines 44-56), trfRun (line 63), scannedUp (lines
\* 70-75), readDown (lines 79-84).
Result(kind, kmer, up, down, fetched, trfRun, scannedUp, readDown) ==
    [kind |-> kind, kmer |-> kmer, upstream |-> up, downstream |-> down,
     fetched |-> fetched, trfRun |-> trfRun, scannedUp |-> scannedUp,
     readDown |-> readDown]

\* no call made (yet)
Pending == Result("pending", <<>>, <<>>, <<>>, FALSE, FALSE, FALSE, FALSE)

\* lines 67-86, given the flanks
Scan(ref, up, down, trfRun) ==
    LET u == UpScan(ref, up, 1, <<>>) IN
    IF u.raised
    THEN Result("IndexError", <<>>, up, down, TRUE, trfRun, TRUE, FALSE)
    ELSE LET kmer == Reverse(u.kmer) IN
         IF TryDownstream(kmer)
         THEN LET d == DownScan(ref, down, 1, kmer) IN
              IF d.raised
              THEN Result("IndexError", <<>>, up, down, TRUE, trfRun, TRUE, TRUE)
              ELSE Result("kmer", DownKmer(d.kmer), up, down, TRUE, trfRun, TRUE, TRUE)
         ELSE Result("kmer", kmer, up, down, TRUE, trfRun, TRUE, FALSE)

\* lines 37-86.  samtools: is the tool on PATH; flankseq: the bases samtools
\* printed; trfLines: the number of lines the repeat finder printed.
SearchKmer(samtools, flankseq, trfLines, ref, flankSize, trfdir) ==
    IF ~samtools
    THEN Result(None, <<>>, <<>>, <<>>, FALSE, FALSE, FALSE, FALSE)
    ELSE LET up   == Upstream(flankseq, ref, flankSize)
             down == Downstream(flankseq, ref, flankSize)
         IN  IF RepeatExcluded(trfdir, trfLines)
             THEN Result("sentinel", <<>>, up, down, TRUE, TRUE, FALSE, FALSE)
             ELSE Scan(ref, up, down, trfdir # None)

(***************************************************************************)
(* SpecSearch: one searchKmer call on every bounded input                  *)
(***************************************************************************)
\* The tool answers that go with the arguments: no sequence without
\* samtools, no repeat-finder output without trfdir.  samtools prints the
\* whole window when retrieval succeeds and fewer bases (a window cut at the
\* contig end, nothing on bad coordinates) when it does not.
SearchInputs ==
    {a \in [samtools : BOOLEAN, start : Starts, ref : SeqsOf(Bases, 1, MaxRef),
            flankSize : 1..MaxFlank, trfdir : {None, "trf409"},
            trfLines : 0..MaxTrfLines,
            flankseq : SeqsOf(Bases, 0, MaxRef + 2 * MaxFlank + 1)] :
        /\ Len(a.flankseq) <= WindowLen(a.start, a.ref, a.flankSize)
        /\ (~a.samtools => a.flankseq = <<>>)
        /\ ((~a.samtools \/ a.trfdir = None) => a.trfLines = 0)}

\* line 174: kmers of this length or more are counted under '10+'; the
\* histogram's key '10+' is written TenPlus
TenPlus == 10

\* the aggregators' parameters and environment before a run is set up
NoEnv == [samtools |-> FALSE, minDelSize |-> 0, flankSize |-> 0, trfdir |-> None]

\* the read head before any line is read
NoLine == [did |-> "none", type |-> None, shortDel |-> FALSE, refLen |-> 0,
           chrom |-> <<>>, searched |-> FALSE, kind |-> "pending", kmerLen |-> 0]

\* SpecSearch's variables while another specification runs
NoArgs == [samtools |-> FALSE, start |-> 0, ref |-> <<>>, flankSize |-> 0,
           trfdir |-> None, trfLines |-> 0, flankseq |-> <<>>]

RunInit ==
    /\ fn = None /\ pc = "idle" /\ exc = None /\ env = NoEnv /\ header = FALSE
    /\ mhdCount = [b \in 0..TenPlus |-> 0]
    /\ variantCount = 0 /\ delCount = 0 /\ delFiltered = 0 /\ trfCount = 0
    /\ last = NoLine

ChromIdle == chromIn = <<>> /\ chromOut = <<>> /\ chromTwice = <<>>

InitSearch ==
    /\ args \in SearchInputs
    /\ res = Pending
    /\ ChromIdle /\ RunInit

CallSearchKmer ==
    /\ res = Pending
    /\ res' = SearchKmer(args.samtools, args.flankseq, args.trfLines,
                         args.ref, args.flankSize, args.trfdir)
    /\ UNCHANGED <<args, chromVars, runVars>>

NextSearch == CallSearchKmer

SpecSearch == InitSearch /\ [][NextSearch]_vars


(***************************************************************************)
(* Properties of searchKmer (checked under SpecSearch)                     *)
(***************************************************************************)
Max(S) == CHOOSE x \in S : \A y \in S : y <= x
MinOf(a, b) == IF a < b THEN a ELSE b

\* The longest common prefix / suffix of two strings, stated directly.
CommonPrefixLen(a, b) ==
    Max({n \in 0..MinOf(Len(a), Len(b)) : \A i \in 1..n : a[i] = b[i]})
CommonSuffixLen(a, b) ==
    Max({n \in 0..MinOf(Len(a), Len(b)) :
            \A i \in 1..n : a[Len(a) + 1 - i] = b[Len(b) + 1 - i]})
LongestCommonPrefix(a, b) == SubSeq(a, 1, CommonPrefixLen(a, b))
LongestCommonSuffix(a, b) == SubSeq(a, Len(a) - CommonSuffixLen(a, b) + 1, Len(a))

Called == res.kind # "pending"
\* samtools was given valid coordinates and printed every base of the region
RetrievalSucceeded ==
    /\ res.fetched
    /\ Region(args.start, args.ref, args.flankSize).lo >= 1
    /\ Len(args.flankseq) = WindowLen(args.start, args.ref, args.flankSize)

\* C1 (as claimed): when the upstream scan yields an empty kmer, the value
\* searchKmer returns is the longest prefix of the reference allele that
\* equals the prefix of the downstream flank, in reference order.
C1_DownstreamPrefixInOrder ==
    (res.kind = "kmer" /\ res.readDown)
        => res.kmer = LongestCommonPrefix(args.ref, res.downstream)

\* C2 (as claimed): the upstream scan stops at the first mismatch or when
\* either string is exhausted, so that for every non-empty reference allele
\* and every upstream flank it ends normally with the longest common suffix
\* of the two strings.  (Stated for the flanks of a successful retrieval; a
\* failed one leaves an empty flank, on which the scan raises as well.)
C2_UpstreamScanEndsNormally ==
    (res.scannedUp /\ RetrievalSucceeded) =>
        LET u == UpScan(args.ref, res.upstream, 1, <<>>) IN
        /\ ~u.raised
        /\ Reverse(u.kmer) = LongestCommonSuffix(args.ref, res.upstream)

\* The last base of the reference allele equals the last base of the
\* upstream flank.
LastBasesEqual ==
    /\ Len(res.upstream) > 0
    /\ args.ref[Len(args.ref)] = res.upstream[Len(res.upstream)]

\* C3: single-direction precedence.  Once the scans are reached, if the last
\* base of the reference allele equals the last base of the upstream flank
\* then the downstream flank is never read and a returned kmer is exactly the
\* upstream kmer (the longest common suffix); the downstream scan runs only
\* when the upstream kmer is empty.
C3_UpstreamPrecedence ==
    res.scannedUp =>
        /\ LastBasesEqual =>
              /\ ~res.readDown
              /\ res.kind = "kmer" =>
                    res.kmer = LongestCommonSuffix(args.ref, res.upstream)
        /\ res.readDown => CommonSuffixLen(args.ref, res.upstream) = 0

\* C3 witness: upstream wins although the downstream flank matches longer.
C3_Witness ==
    /\ res.kind = "kmer" /\ LastBasesEqual
    /\ Len(res.kmer) = 1
    /\ CommonPrefixLen(args.ref, res.downstream) = 2
    /\ LongestCommonPrefix(args.ref, res.downstream) # res.kmer

\* C4: repeat exclusion short-circuits.  With trfdir given and one or more
\* lines reported on the fetched window the call returns the sentinel and
\* performs no upstream or downstream scan; with trfdir None the detector is
\* never invoked and the sentinel is never returned.
C4_RepeatShortCircuit ==
    Called =>
        /\ (res.fetched /\ args.trfdir # None /\ args.trfLines > 0) =>
              (res.kind = "sentinel" /\ res.trfRun /\ ~res.scannedUp /\ ~res.readDown)
        /\ args.trfdir = None => (~res.trfRun /\ res.kind # "sentinel")
        /\ res.kind = "sentinel" => (args.trfdir # None /\ args.trfLines > 0)

\* C4 witness: the sentinel is returned on a window whose upstream flank
\* matches the whole reference allele.
C4_Witness ==
    /\ res.kind = "sentinel"
    /\ Len(args.ref) = 2
    /\ CommonSuffixLen(args.ref, res.upstream) = 2

\* C8 (as claimed): when samtools returns every base of the region the code
\* asks for, both flanks have length exactly flankSize.
C8_FlanksHaveFlankSize ==
    RetrievalSucceeded =>
        /\ Len(res.upstream) = args.flankSize
        /\ Len(res.downstream) = args.flankSize

\* What the code computes on a successful retrieval: the upstream flank has
\* flankSize bases and the downstream flank one more.
FlankLengthsOnSuccess ==
    RetrievalSucceeded =>
        /\ Len(res.upstream) = args.flankSize
        /\ Len(res.downstream) = args.flankSize + 1

\* The kmer never exceeds the reference allele.
KmerWithinRef == res.kind = "kmer" => Len(res.kmer) <= Len(args.ref)


(***************************************************************************)
(* Chromosome-name formatting (mafMHD lines 156-158, vcfMHD lines 240-242) *)
(***************************************************************************)
Chr == <<"c", "h", "r">>
ChromChars == {"c", "h", "r", "1"}

\* Python's `sub in s`
Contains(s, sub) ==
    \E i \in 1..(Len(s) - Len(sub) + 1) : SubSeq(s, i, i + Len(sub) - 1) = sub

\* lines 157-158
FormatChrom(chrom) == IF ~Contains(chrom, Chr) THEN Chr \o chrom ELSE chrom

InitChrom ==
    /\ chromIn \in SeqsOf(ChromChars, 0, MaxChromLen)
    /\ chromOut = <<>> /\ chromTwice = <<>>
    /\ args = NoArgs /\ res = Pending /\ RunInit

\* the name is formatted for samtools
FormatOnce ==
    /\ chromOut = <<>>
    /\ chromOut' = <<FormatChrom(chromIn)>>
    /\ UNCHANGED <<chromIn, chromTwice, searchVars, runVars>>

\* a collaborator that already formats names formats the formatted name again
FormatTwice ==
    /\ chromOut # <<>> /\ chromTwice = <<>>
    /\ chromTwice' = <<FormatChrom(chromOut[1])>>
    /\ UNCHANGED <<chromIn, chromOut, searchVars, runVars>>

NextChrom == FormatOnce \/ FormatTwice

SpecChrom == InitChrom /\ [][NextChrom]_vars

\* C9 (as claimed): every name passed on carries a leading "chr"; a name that
\* already starts with "chr" is passed unchanged, a name that does not start
\* with "chr" gets "chr" prepended exactly once, and formatting twice gives
\* the same as formatting once.
C9_LeadingChrPrefix ==
    /\ chromOut # <<>> =>
          /\ StartsWith(chromOut[1], Chr)
          /\ StartsWith(chromIn, Chr) => chromOut[1] = chromIn
          /\ ~StartsWith(chromIn, Chr) => chromOut[1] = Chr \o chromIn
    /\ chromTwice # <<>> => chromTwice = chromOut

\* What the code does: the test is for "chr" anywhere in the name.
ChromFormatBySubstring ==
    /\ chromOut # <<>> =>
          /\ Contains(chromOut[1], Chr)
          /\ Contains(chromIn, Chr) => chromOut[1] = chromIn
          /\ ~Contains(chromIn, Chr) => chromOut[1] = Chr \o chromIn
    /\ chromTwice # <<>> => chromTwice = chromOut

(***************************************************************************)
(* mafMHD and vcfMHD                                                       *)
(***************************************************************************)
\* line 90: the default minDelSize
DefaultMinDelSize == 5

MinDelSizes == {1, DefaultMinDelSize}
FlankSizes == {2, TenPlus}
RefLens == {3, TenPlus}
ChromNames == {<<"1">>, Chr \o <<"1">>}

Rep(c, n) == [i \in 1..n |-> c]
LastN(s, n) == SubSeq(s, Len(s) - n + 1, Len(s))

\* A deletion site of the reference genome: the deleted bases `ref` at
\* position `start`, the bases before them and the bases after them.  The
\* site has `mh` bases of microhomology on one side and none on the other.
Site(L, mh, side) ==
    IF side = "up"
    THEN [start |-> 100, ref |-> Rep("C", L - mh) \o Rep("A", mh),
          up |-> Rep("G", TenPlus - mh) \o Rep("A", mh),
          down |-> Rep("G", TenPlus + 1)]
    ELSE [start |-> 100, ref |-> Rep("A", mh) \o Rep("C", L - mh),
          up |-> Rep("G", TenPlus),
          down |-> Rep("A", mh) \o Rep("G", TenPlus + 1)]

Homologies == {0, 1, 3, TenPlus - 1, TenPlus}
Sites == UNION {{Site(L, mh, side) : mh \in {m \in Homologies : m <= L},
                                     side \in {"up", "down"}} : L \in RefLens}

\* What samtools faidx prints for the region of line 44 around a site: the
\* bases start-flankSize .. start+len(ref)+flankSize, both ends included.
SamtoolsFaidx(site, flankSize) ==
    LastN(site.up, flankSize) \o site.ref \o Take(site.down, flankSize + 1)

Envs == [samtools : BOOLEAN, minDelSize : MinDelSizes, flankSize : FlankSizes,
         trfdir : {None, "trf409"}]

\* the data lines of a MAF file: the columns the code reads, and the site
\* the Chromosome / Start_position columns point at
MafRecords == [variantType : {"DEL", "SNP"}, chrom : ChromNames, site : Sites]

\* the variants of a VCF file, one ALT each
VcfVariants == [chrom : ChromNames, site : Sites,
                alt : {<<"A">>, Rep("A", TenPlus + 1)}]

\* line 151 (MAF) and line 245 (VCF): is the record a deletion?
IsDeletionMaf(line) == line.variantType = "DEL"
IsDeletionVcf(variant) == Len(variant.site.ref) > Len(variant.alt)

\* lines 161 and 251
TooSmall(ref, minDelSize) == Len(ref) < minDelSize

\* only the kmer's own bucket incremented
AccumulateExactBucket(h, L) ==
    IF L < TenPlus THEN [h EXCEPT ![L] = @ + 1] ELSE [h EXCEPT ![TenPlus] = @ + 1]

\* lines 174-178 and 264-268: the histogram after a kmer of length L
Accumulate(h, L) ==
    IF L < TenPlus
    THEN [b \in 0..TenPlus |-> IF b <= L THEN h[b] + 1 ELSE h[b]]
    ELSE [h EXCEPT ![TenPlus] = @ + 1]

ReadHead(did, type, shortDel, refLen, chrom, searched, kind, kmerLen) ==
    [did |-> did, type |-> type, shortDel |-> shortDel, refLen |-> refLen,
     chrom |-> chrom, searched |-> searched, kind |-> kind, kmerLen |-> kmerLen]

Init ==
    /\ env \in Envs
    /\ fn = None /\ pc = "idle" /\ exc = None /\ header = FALSE
    /\ mhdCount = [b \in 0..TenPlus |-> 0]
    /\ variantCount = 0 /\ delCount = 0 /\ delFiltered = 0 /\ trfCount = 0
    /\ last = NoLine
    /\ args = NoArgs /\ res = Pending /\ ChromIdle

\* lines 116-121: mafMHD opens the file and zeroes its counters
MafOpen ==
    /\ pc = "idle"
    /\ fn' = "mafMHD" /\ pc' = "loop"
    /\ mhdCount' = [b \in 0..TenPlus |-> 0]
    /\ variantCount' = 0 /\ delCount' = 0 /\ delFiltered' = 0 /\ trfCount' = 0
    /\ UNCHANGED <<exc, env, header, last, searchVars, chromVars>>

\* lines 125-126: a line starting with '#'
MafComment ==
    /\ fn = "mafMHD" /\ pc = "loop"
    /\ last' = ReadHead("comment", "#", FALSE, 0, <<>>, FALSE, "pending", 0)
    /\ UNCHANGED <<fn, pc, exc, env, header, mhdCount, variantCount, delCount,
                   delFiltered, trfCount, searchVars, chromVars>>

\* lines 130-136: the line holding Hugo_Symbol binds the column indices; a
\* required column name missing from it makes list.index raise ValueError
MafHeader(complete) ==
    /\ fn = "mafMHD" /\ pc = "loop"
    /\ last' = ReadHead("header", "Hugo_Symbol", FALSE, 0, <<>>, FALSE, "pending", 0)
    /\ IF complete
       THEN header' = TRUE /\ UNCHANGED <<pc, exc>>
       ELSE pc' = "raised" /\ exc' = "ValueError" /\ UNCHANGED header
    /\ UNCHANGED <<fn, env, mhdCount, variantCount, delCount, delFiltered,
                   trfCount, searchVars, chromVars>>

\* lines 138-148: a data line whose columns cannot be read (no header line
\* before it, or too few fields): counted as a variant, then return None
MafNoColumns(afterHeader) ==
    /\ fn = "mafMHD" /\ pc = "loop" /\ variantCount < MaxRecords
    /\ afterHeader = header
    /\ variantCount' = variantCount + 1
    /\ pc' = "returnedNone"
    /\ last' = ReadHead("noColumns", None, FALSE, 0, <<>>, FALSE, "pending", 0)
    /\ UNCHANGED <<fn, exc, env, header, mhdCount, delCount, delFiltered,
                   trfCount, searchVars, chromVars>>

\* lines 138-178: a data line with its columns.  fetched: did samtools print
\* the region (otherwise it printed no base); t: the number of lines the
\* repeat finder printed.
MafRecord(line, fetched, t) ==
    /\ fn = "mafMHD" /\ pc = "loop" /\ variantCount < MaxRecords
    /\ header
    /\ variantCount' = variantCount + 1
    /\ LET ref   == line.site.ref
           chrom == FormatChrom(line.chrom)
           short == IsDeletionMaf(line) /\ TooSmall(ref, env.minDelSize)
       IN
       IF ~IsDeletionMaf(line)
       THEN /\ last' = ReadHead("notDEL", line.variantType, FALSE, Len(ref), <<>>,
                            FALSE, "pending", 0)
            /\ UNCHANGED <<pc, exc, mhdCount, delCount, delFiltered, trfCount>>
       ELSE
       /\ delCount' = delCount + 1
       /\ IF TooSmall(ref, env.minDelSize)
          THEN /\ delFiltered' = delFiltered + 1
               /\ last' = ReadHead("filtered", "DEL", short, Len(ref), <<>>,
                               FALSE, "pending", 0)
               /\ UNCHANGED <<pc, exc, mhdCount, trfCount>>
          ELSE LET flankseq == IF fetched
                               THEN SamtoolsFaidx(line.site, env.flankSize)
                               ELSE <<>>
                   kmer == SearchKmer(env.samtools, flankseq, t, ref,
                                      env.flankSize, env.trfdir)
               IN
               /\ last' = ReadHead(IF kmer.kind = "sentinel" THEN "trf"
                               ELSE IF kmer.kind = "kmer" THEN "counted"
                               ELSE "raised",
                               "DEL", short, Len(ref), chrom, TRUE, kmer.kind,
                               Len(kmer.kmer))
               /\ delFiltered' = delFiltered
               /\ CASE kmer.kind = "sentinel" ->
                         /\ trfCount' = trfCount + 1
                         /\ UNCHANGED <<pc, exc, mhdCount>>
                    [] kmer.kind = "kmer" ->
                         /\ mhdCount' = Accumulate(mhdCount, Len(kmer.kmer))
                         /\ UNCHANGED <<pc, exc, trfCount>>
                    [] kmer.kind = None ->
                         \* line 174: len(None)
                         /\ pc' = "raised" /\ exc' = "TypeError"
                         /\ UNCHANGED <<mhdCount, trfCount>>
                    [] OTHER ->
                         \* lines 71, 80: the scan's IndexError is not caught
                         /\ pc' = "raised" /\ exc' = "IndexError"
                         /\ UNCHANGED <<mhdCount, trfCount>>
    /\ UNCHANGED <<fn, env, header, searchVars, chromVars>>

\* lines 180-181: end of file
MafReturn ==
    /\ fn = "mafMHD" /\ pc = "loop"
    /\ pc' = "returned"
    /\ UNCHANGED <<fn, exc, env, header, mhdCount, variantCount, delCount,
                   delFiltered, trfCount, last, searchVars, chromVars>>

\* lines 208-211: vcfMHD is called on a file whose first variant is
\* `variant`.  Without cyvcf2 the import raises; with it, the name vcf_file
\* of line 211 is not defined (the parameter is vcf) and NameError is raised.
\* Either way no variant is read and no counter is bound.
VcfCall(cyvcf2, variant) ==
    /\ pc = "idle"
    /\ fn' = "vcfMHD" /\ pc' = "raised"
    /\ exc' = IF cyvcf2 THEN "NameError" ELSE "ImportError"
    /\ last' = ReadHead("unread", IF IsDeletionVcf(variant) THEN "DEL" ELSE "other",
                    IsDeletionVcf(variant) /\ TooSmall(variant.site.ref, env.minDelSize),
                    Len(variant.site.ref), <<>>, FALSE, "pending", 0)
    /\ UNCHANGED <<env, header, mhdCount, variantCount, delCount, delFiltered,
                   trfCount, searchVars, chromVars>>

\* the repeat finder prints only when it is run
TrfAnswers == {t \in 0..MaxTrfLines : (env.trfdir = None \/ ~env.samtools) => t = 0}

Next ==
    \/ MafOpen
    \/ MafComment
    \/ \E complete \in BOOLEAN : MafHeader(complete)
    \/ \E afterHeader \in BOOLEAN : MafNoColumns(afterHeader)
    \/ \E line \in MafRecords, fetched \in BOOLEAN, t \in TrfAnswers :
          MafRecord(line, fetched, t)
    \/ MafReturn
    \/ \E cyvcf2 \in BOOLEAN, variant \in VcfVariants : VcfCall(cyvcf2, variant)

Spec == Init /\ [][Next]_vars

(***************************************************************************)
(* Properties of the aggregators (checked under Spec)                      *)
(***************************************************************************)
\* a step in which mafMHD reads a data line
MafReads == fn = "mafMHD" /\ pc = "loop" /\ variantCount' = variantCount + 1

\* the step in which vcfMHD is called on a file, with cyvcf2 installed
VcfHanded == pc = "idle" /\ fn' = "vcfMHD" /\ exc' # "ImportError"

\* What C5 asks of the step that meets a deletion shorter than minDelSize.
ShortDeletionStep ==
    last'.shortDel =>
        /\ last'.did = "filtered"
        /\ delFiltered' = delFiltered + 1
        /\ ~last'.searched
        /\ mhdCount' = mhdCount
        /\ trfCount' = trfCount

\* C5 (as claimed): in mafMHD and vcfMHD every deletion whose reference
\* allele is shorter than minDelSize increments minDelFiltered by exactly 1,
\* searchKmer is not invoked for it, and the histogram and the tandem-repeat
\* counter are left unchanged.
C5_ShortDeletionsFiltered == [][(MafReads \/ VcfHanded) => ShortDeletionStep]_vars

\* The part of C5 the code satisfies: mafMHD.
MafShortDeletionsFiltered == [][MafReads => ShortDeletionStep]_vars

\* a short deletion was filtered by mafMHD
MafShortDeletionSeen == fn = "mafMHD" /\ last.shortDel /\ delFiltered = 2

\* What C6 asks of the step that meets a deletion of at least minDelSize
\* bases: it is searched, and the histogram changes by the kmer's length.
HistogramStep ==
    (last'.type = "DEL" /\ ~last'.shortDel) =>
        /\ last'.searched
        /\ (last'.kind = "kmer" /\ last'.kmerLen < TenPlus) =>
              \A b \in 0..TenPlus :
                  mhdCount'[b] = IF b <= last'.kmerLen THEN mhdCount[b] + 1
                                 ELSE mhdCount[b]
        /\ (last'.kind = "kmer" /\ last'.kmerLen >= TenPlus) =>
              \A b \in 0..TenPlus :
                  mhdCount'[b] = IF b = TenPlus THEN mhdCount[b] + 1
                                 ELSE mhdCount[b]
        /\ last'.kind = "sentinel" => mhdCount' = mhdCount

\* C6 (as claimed): in mafMHD and vcfMHD, each accepted deletion with kmer
\* length L < 10 increments every bucket 0..L by exactly 1 and no other; with
\* L >= 10 only '10+' is incremented; a deletion whose search returns the
\* sentinel changes no bucket.
C6_HistogramAccumulation == [][(MafReads \/ VcfHanded) => HistogramStep]_vars

\* The part of C6 the code satisfies: mafMHD.
MafHistogramAccumulation == [][MafReads => HistogramStep]_vars

\* mafMHD counted kmers below and above the '10+' threshold
MafHistogramSeen ==
    /\ fn = "mafMHD" /\ mhdCount[3] = 1 /\ mhdCount[0] = 2 /\ mhdCount[TenPlus] = 1

\* C7 (as claimed): when samtools cannot be located the run fails at once,
\* before any variant is processed or counted, and returns no result.
\* (Stated of the runs that have read a data line with its columns.)
C7_ToolUnavailableIsImmediate ==
    (fn = "mafMHD" /\ ~env.samtools /\ last.type \in {"DEL", "SNP"}) =>
        /\ pc # "returned"
        /\ variantCount = 0 /\ delCount = 0 /\ delFiltered = 0

\* What the code does without samtools: the tool is looked for only when a
\* deletion reaches searchKmer, whose None then makes len(kmer) raise.
ToolUnavailableIsLate ==
    (fn = "mafMHD" /\ ~env.samtools) =>
        /\ last.searched => (pc = "raised" /\ exc = "TypeError" /\ last.kind = None)
        /\ pc = "raised" /\ exc = "TypeError" => variantCount >= 1

\* C10: counter conservation in mafMHD.  At every record boundary of a run
\* in which every search returned a kmer or the sentinel,
\* Deletions = minDelFiltered + Short Tandem Repeat Filtered + mhdCount[0] +
\* mhdCount['10+'], Deletions <= Total Variants, and the buckets 0..9 are
\* non-increasing.
C10_CounterConservation ==
    (fn = "mafMHD" /\ pc \in {"loop", "returned"}) =>
        /\ delCount = delFiltered + trfCount + mhdCount[0] + mhdCount[TenPlus]
        /\ delCount <= variantCount
        /\ \A b \in 0..(TenPlus - 2) : mhdCount[b] >= mhdCount[b + 1]

\* C10 witness: a run that has put one deletion in each of the three classes,
\* the histogram one under '10+'.
C10_Witness ==
    /\ fn = "mafMHD" /\ pc = "returned"
    /\ delFiltered = 1 /\ trfCount = 1 /\ mhdCount[TenPlus] = 1

\* C10 witness for the buckets: kmers of length 3 and 0 were counted.
C10_WitnessBuckets ==
    /\ fn = "mafMHD" /\ pc = "loop"
    /\ mhdCount[0] = 2 /\ mhdCount[3] = 1 /\ delCount < variantCount

=============================================================================
